---- MODULE Spec2Model ----
(***************************************************************************)
(* The chat component `App` of zed-ai: the Send Controller (sendMessage),  *)
(* the Transport Client (makeGraphQLRequest with its fallback to           *)
(* makeRESTRequest) and the Conversation State (messages, isLoading).      *)
(*                                                                         *)
(* Two builds of the component exist in the repository:                    *)
(*   "graphql"  src/src/App.tsx       structured query, fallback to REST,  *)
(*                                    one provider (openai)                *)
(*   "rest"     src/unnamed/part_002  REST only, providers openai and      *)
(*                                    deepseek                             *)
(* `variant` fixes which one runs.                                         *)
(*                                                                         *)
(* Text is a sequence of tokens (strings); the user's input is a sequence  *)
(* of one-character tokens, so that trim() and template strings are        *)
(* computed rather than assumed.                                           *)
(*                                                                         *)
(* React: a handler reads the values captured by the render that created   *)
(* it (`view`) and writes through the setters; functional updates          *)
(* (setMessages(prev => ...)) apply to the state itself.  Every block of   *)
(* updates is rendered before the next handler runs, so each action ends   *)
(* with the render of the state it leaves.  The `disabled` attributes of   *)
(* the textarea and of the button belong to the presentation layer and     *)
(* only remove events: the handlers are modelled as callable in every      *)
(* state.                                                                  *)
(***************************************************************************)
EXTENDS Integers, Sequences, FiniteSets, TLC

VARIABLES
  variant,    \* which build of App runs
  config,     \* useState<Config>: provider -> [apiKey, baseUrl], never set again
  messages,   \* useState<Message[]>
  input,      \* useState(''): the input buffer
  isLoading,  \* useState(false): the pending flag
  provider,   \* useState<Provider>('openai')
  view,       \* the values captured by the latest render (the handlers' closure)
  inflight,   \* the sendMessage calls suspended at an await
  now,        \* the millisecond clock read by Date.now()
  event       \* the handler or continuation that ran last, with its input

vars == <<variant, config, messages, input, isLoading, provider, view, inflight, now, event>>

-----------------------------------------------------------------------------
(* Bounds of the model *)

\* The conversation holds at most MaxMsgs messages: a send starts only when
\* its user message and its reply still fit.
MaxMsgs == 4
\* The clock stops at MaxTime.
MaxTime == 1

-----------------------------------------------------------------------------
(* JavaScript values, as far as the response handling looks at them *)

Undef == [t |-> "undefined"]
JNull == [t |-> "null"]
JStr(s) == [t |-> "string", v |-> s]
JArr(a) == [t |-> "array", v |-> a]
JObj(r) == [t |-> "object", v |-> r]

IsNullish(x) == x.t \in {"undefined", "null"}

\* ToBoolean: undefined, null and '' are falsy; arrays and objects are truthy.
Truthy(x) ==
  CASE x.t \in {"undefined", "null"} -> FALSE
    [] x.t = "string" -> x.v # <<>>
    [] OTHER -> TRUE

\* o.k for a non-nullish o: the property, or undefined when absent.
Get(o, k) ==
  IF o.t = "object" /\ k \in DOMAIN o.v THEN o.v[k] ELSE Undef

\* a[0] for a non-nullish a.
First(a) ==
  IF a.t = "array" /\ Len(a.v) > 0 THEN a.v[1] ELSE Undef

\* The result of evaluating an expression: a value, or a thrown Error.
Return(x) == [threw |-> FALSE, val |-> x, msg |-> <<>>, isError |-> FALSE]
Throw(m) == [threw |-> TRUE, val |-> Undef, msg |-> m, isError |-> TRUE]

\* V8's message for reading property k of undefined or null.
TypeErrorReading(o, k) ==
  <<"Cannot read properties of ", o.t, " (reading '", k, "')">>

\* Array.prototype.join on a sequence of texts.
RECURSIVE Join(_, _)
Join(texts, sep) ==
  IF texts = <<>> THEN <<>>
  ELSE IF Len(texts) = 1 THEN texts[1]
  ELSE texts[1] \o sep \o Join(Tail(texts), sep)

\* String.prototype.trim: strips white space at both ends, keeps it inside.
IsWhiteSpace(c) == c \in {" ", "\n", "\t"}

RECURSIVE TrimStart(_)
TrimStart(s) ==
  IF s # <<>> /\ IsWhiteSpace(Head(s)) THEN TrimStart(Tail(s)) ELSE s

RECURSIVE TrimEnd(_)
TrimEnd(s) ==
  IF s # <<>> /\ IsWhiteSpace(s[Len(s)]) THEN TrimEnd(SubSeq(s, 1, Len(s) - 1)) ELSE s

Trim(s) == TrimEnd(TrimStart(s))

\* provider.toUpperCase()
ToUpperCase(p) ==
  CASE p = "openai" -> "OPENAI"
    [] p = "deepseek" -> "DEEPSEEK"

\* String.prototype.includes on token sequences.
Includes(text, part) ==
  \E i \in 0..(Len(text) - Len(part)) : SubSeq(text, i + 1, i + Len(part)) = part

-----------------------------------------------------------------------------
(* Configuration and the texts the component shows *)

Variants == {"graphql", "rest"}

\* type Provider, and the options of the provider <select>.
Providers(v) == IF v = "graphql" THEN {"openai"} ELSE {"openai", "deepseek"}

DefaultBaseUrl(p) ==
  IF p = "openai" THEN "https://api.openai.com/v1" ELSE "https://api.deepseek.com/v1"

\* `env || fallback`
OrElse(x, fallback) == IF x = "" THEN fallback ELSE x

\* The initial value of useState<Config>, for the environment env.
ConfigOf(v, env) ==
  [p \in Providers(v) |->
     [apiKey  |-> OrElse(env[p].apiKey, ""),
      baseUrl |-> OrElse(env[p].baseUrl, DefaultBaseUrl(p))]]

\* import.meta.env of the builds checked ("" = the variable is unset).
Env(openaiKey, openaiUrl, deepseekKey, deepseekUrl) ==
  [p \in {"openai", "deepseek"} |->
     IF p = "openai" THEN [apiKey |-> openaiKey, baseUrl |-> openaiUrl]
                     ELSE [apiKey |-> deepseekKey, baseUrl |-> deepseekUrl]]

Envs ==
  {Env("", "", "", ""),
   Env("sk-openai", "", "", "https://ds.example/v1"),
   Env("sk-openai", "https://proxy.example/v1", "sk-deepseek", ""),
   Env("", "", "sk-deepseek", "")}

\* The fallback content of a reply without content.
NoReplyText == <<"NO_REPLY_RECEIVED">>       \* '抱歉，我没有收到回复'
\* The prefix of a synthesized error message.
ErrorPrefix == <<"SORRY_AN_ERROR_OCCURRED:">> \* '抱歉，发生了错误：'
UnknownErrorText == <<"UNKNOWN_ERROR">>        \* '未知错误'

\* alert(`请先配置 ${provider.toUpperCase()} API Key`)
ConfigPrompt(p) == <<"PLEASE_CONFIGURE ", ToUpperCase(p), " API Key">>
NoAlert == <<>>

ModelName(p) == IF p = "openai" THEN "gpt-3.5-turbo" ELSE "deepseek-chat"

\* messages.map(msg => ({role: msg.role, content: msg.content}))
RoleContent(msgs) ==
  [i \in 1..Len(msgs) |-> [role |-> msgs[i].role, content |-> msgs[i].content]]

\* Faulty input: messages.map(...) on the `messages` of the closure instead of
\* allMessages, so that the history lacks the new user Message.
Variables_FromClosure(modelName, allMessages) ==
  [model |-> modelName,
   messages |-> RoleContent(SubSeq(allMessages, 1, Len(allMessages) - 1)),
   temperature |-> "0.7", maxTokens |-> 1000]

\* The ChatCompletionInput of the structured query.
Variables(modelName, allMessages) ==
  [model |-> modelName, messages |-> RoleContent(allMessages),
   temperature |-> "0.7", maxTokens |-> 1000]

\* The fetch of makeGraphQLRequest.
GraphQLCall(variables, endpoint, apiKey) ==
  [kind |-> "graphql",
   url |-> <<endpoint, "/graphql">>,
   authorization |-> <<"Bearer ", apiKey>>,
   body |-> [query |-> "CHAT_COMPLETION_MUTATION", variables |-> [input |-> variables]]]

\* Faulty fallback request: its own sampling temperature.
RESTCall_OtherTemperature(msgs, currentConfig, modelName) ==
  [kind |-> "rest",
   url |-> <<currentConfig.baseUrl, "/chat/completions">>,
   authorization |-> <<"Bearer ", currentConfig.apiKey>>,
   body |-> [model |-> modelName, messages |-> RoleContent(msgs),
             temperature |-> "1.0", max_tokens |-> 1000]]

\* The fetch of makeRESTRequest (and of the REST-only build).
RESTCall(msgs, currentConfig, modelName) ==
  [kind |-> "rest",
   url |-> <<currentConfig.baseUrl, "/chat/completions">>,
   authorization |-> <<"Bearer ", currentConfig.apiKey>>,
   body |-> [model |-> modelName, messages |-> RoleContent(msgs),
             temperature |-> "0.7", max_tokens |-> 1000]]

-----------------------------------------------------------------------------
(* What the network may answer *)

\* fetch() rejected: no HTTP response at all.
NetworkError == [reject |-> TRUE, status |-> 0, json |-> FALSE, body |-> Undef]
\* An HTTP response whose body is not looked at (non-2xx) or is not JSON.
Http(status) == [reject |-> FALSE, status |-> status, json |-> FALSE, body |-> Undef]
\* A 200 response with a JSON body.
Json(body) == [reject |-> FALSE, status |-> 200, json |-> TRUE, body |-> body]

\* response.ok
Ok(resp) == resp.status >= 200 /\ resp.status <= 299

Choice(content) ==
  JObj([message |-> JObj([role |-> JStr(<<"assistant">>), content |-> JStr(content)])])

HiThere == <<"Hi there">>
FallbackReply == <<"Fallback reply">>

ChatCompletionData(choices) == JObj([chatCompletion |-> JObj([id |-> JStr(<<"c1">>), choices |-> choices])])

GraphQLResponses == <<
  Json(JObj([data |-> ChatCompletionData(JArr(<<Choice(HiThere)>>))])),
  Json(JObj([data |-> ChatCompletionData(JArr(<<Choice(HiThere)>>)), errors |-> JArr(<<>>)])),
  Json(JObj([data |-> JNull,
             errors |-> JArr(<<JObj([message |-> JStr(<<"boom">>)]),
                               JObj([message |-> JStr(<<"bad model">>)])>>)])),
  Json(JObj([errors |-> JArr(<<JObj([message |-> JStr(<<"boom">>)])>>)])),
  Json(JObj([other |-> JNull])),
  Json(JObj([data |-> JNull])),
  Json(JObj([data |-> JObj([other |-> JNull])])),
  Json(JObj([data |-> JObj([chatCompletion |-> JObj([id |-> JStr(<<"c1">>)])])])),
  Json(JObj([data |-> ChatCompletionData(JArr(<<>>))])),
  Json(JObj([data |-> ChatCompletionData(JArr(<<JObj([index |-> JNull])>>))])),
  Json(JObj([data |-> ChatCompletionData(JArr(<<JObj([message |-> JObj([role |-> JStr(<<"assistant">>)])])>>))])),
  Json(JObj([data |-> ChatCompletionData(JArr(<<Choice(<<>>)>>))])),
  Http(500),
  Http(200),
  NetworkError
>>

RESTResponses == <<
  Json(JObj([choices |-> JArr(<<Choice(FallbackReply)>>)])),
  Json(JObj([error |-> JObj([message |-> JStr(<<"boom">>)])])),
  Json(JObj([choices |-> JArr(<<>>)])),
  Json(JObj([choices |-> JArr(<<JObj([index |-> JNull])>>)])),
  Json(JObj([choices |-> JArr(<<JObj([message |-> JObj([role |-> JStr(<<"assistant">>)])])>>)])),
  Json(JObj([choices |-> JArr(<<Choice(<<>>)>>)])),
  Http(500),
  Http(429),
  NetworkError
>>

\* The inputs the user may have typed.
Inputs == {<<>>, <<"\n", " ">>, <<" ", "a", "\n">>, <<"a", " ", "b">>}

-----------------------------------------------------------------------------
(* The Transport Client *)

HttpErrorText(status) == <<"HTTP error! status: ", ToString(status)>>
\* The TypeError of a rejected fetch, and the SyntaxError of response.json().
FailedToFetch == <<"Failed to fetch">>
NotJsonText == <<"Unexpected token '<' is not valid JSON">>

\* Faulty request: result.errors is never looked at.
makeGraphQLRequest_IgnoresErrors(resp) ==
  IF resp.reject THEN Throw(FailedToFetch)
  ELSE IF ~Ok(resp) THEN Throw(HttpErrorText(resp.status))
  ELSE IF ~resp.json THEN Throw(NotJsonText)
  ELSE Return(Get(resp.body, "data"))

\* makeGraphQLRequest from the arrival of the response on: result.data, or a throw.
makeGraphQLRequest(resp) ==
  IF resp.reject THEN Throw(FailedToFetch)
  ELSE IF ~Ok(resp) THEN Throw(HttpErrorText(resp.status))
  ELSE IF ~resp.json THEN Throw(NotJsonText)
  ELSE LET result == resp.body
           errors == Get(result, "errors")
       IN IF IsNullish(result) THEN Throw(TypeErrorReading(result, "errors"))
          ELSE IF Truthy(errors) /\ Len(errors.v) > 0
            THEN Throw(<<"GraphQL error: ">> \o
                       Join([i \in 1..Len(errors.v) |-> Get(errors.v[i], "message").v], <<", ">>))
          ELSE Return(Get(result, "data"))

\* makeRESTRequest from the arrival of the response on: the decoded body, or a throw.
makeRESTRequest(resp) ==
  IF resp.reject THEN Throw(FailedToFetch)
  ELSE IF ~Ok(resp) THEN Throw(HttpErrorText(resp.status))
  ELSE IF ~resp.json THEN Throw(NotJsonText)
  ELSE Return(resp.body)

\* Faulty unwrapping: reads graphqlData?.choices.
GraphQLChoices_WrongPath(graphqlData) ==
  IF IsNullish(graphqlData) THEN Return(JObj([choices |-> JArr(<<>>)]))
  ELSE LET choices == Get(graphqlData, "choices")
       IN Return(JObj([choices |-> IF Truthy(choices) THEN choices ELSE JArr(<<>>)]))

\* Faulty reading of the reply: graphqlData?.chatCompletion?.choices || [], so
\* that data without chatCompletion no longer throws.
GraphQLChoices_OptionalChain(graphqlData) ==
  IF IsNullish(graphqlData) THEN Return(JObj([choices |-> JArr(<<>>)]))
  ELSE LET chatCompletion == Get(graphqlData, "chatCompletion")
       IN IF IsNullish(chatCompletion) THEN Return(JObj([choices |-> JArr(<<>>)]))
          ELSE LET choices == Get(chatCompletion, "choices")
               IN Return(JObj([choices |-> IF Truthy(choices) THEN choices ELSE JArr(<<>>)]))

\* data = { choices: graphqlData?.chatCompletion.choices || [] }
GraphQLChoices(graphqlData) ==
  IF IsNullish(graphqlData) THEN Return(JObj([choices |-> JArr(<<>>)]))
  ELSE LET chatCompletion == Get(graphqlData, "chatCompletion")
       IN IF IsNullish(chatCompletion) THEN Throw(TypeErrorReading(chatCompletion, "choices"))
          ELSE LET choices == Get(chatCompletion, "choices")
               IN Return(JObj([choices |-> IF Truthy(choices) THEN choices ELSE JArr(<<>>)]))

\* The inner try block once the structured response is there: data, or the
\* graphqlError that the inner catch receives.
GraphQLAttempt(resp) ==
  LET graphqlData == makeGraphQLRequest(resp)
  IN IF graphqlData.threw THEN graphqlData ELSE GraphQLChoices(graphqlData.val)

\* Faulty extraction: reads choices[0]?.text, the shape of the older completions API.
ReplyContent_ReadsText(data) ==
  IF IsNullish(data) THEN Throw(TypeErrorReading(data, "choices"))
  ELSE LET choices == Get(data, "choices")
       IN IF IsNullish(choices) THEN Throw(TypeErrorReading(choices, "0"))
          ELSE LET choice == First(choices)
                   content == IF IsNullish(choice) THEN Undef ELSE Get(choice, "text")
               IN Return(IF Truthy(content) THEN content.v ELSE NoReplyText)

\* data.choices[0]?.message?.content || '抱歉，我没有收到回复'
ReplyContent(data) ==
  IF IsNullish(data) THEN Throw(TypeErrorReading(data, "choices"))
  ELSE LET choices == Get(data, "choices")
       IN IF IsNullish(choices) THEN Throw(TypeErrorReading(choices, "0"))
          ELSE LET choice == First(choices)
                   message == IF IsNullish(choice) THEN Undef ELSE Get(choice, "message")
                   content == IF IsNullish(message) THEN Undef ELSE Get(message, "content")
               IN Return(IF Truthy(content) THEN content.v ELSE NoReplyText)

\* Faulty error text: the instanceof test is inverted.
ErrorContent_InvertedTest(error) ==
  ErrorPrefix \o (IF error.isError THEN UnknownErrorText ELSE error.msg)

\* `抱歉，发生了错误：${error instanceof Error ? error.message : '未知错误'}`
ErrorContent(error) ==
  ErrorPrefix \o (IF error.isError THEN error.msg ELSE UnknownErrorText)

\* The content of the assistant Message that ends a send: `data` is the outcome
\* of the transport (a value, or the error that reaches the outer catch).
AssistantContent(data) ==
  IF data.threw THEN ErrorContent(data)
  ELSE LET content == ReplyContent(data.val)
       IN IF content.threw THEN ErrorContent(content) ELSE content.val

\* What the end of sendMessage does with `data`: whether the outer catch runs,
\* and the content of the Message appended.
Outcome(data) ==
  [caught  |-> data.threw \/ ReplyContent(data.val).threw,
   content |-> AssistantContent(data)]

\* The transport's handling of each possible response, tabulated.
GraphQLData == [k \in DOMAIN GraphQLResponses |-> GraphQLAttempt(GraphQLResponses[k])]
RESTData == [k \in DOMAIN RESTResponses |-> makeRESTRequest(RESTResponses[k])]
GraphQLOutcome == [k \in DOMAIN GraphQLResponses |-> Outcome(GraphQLData[k])]
RESTOutcome == [k \in DOMAIN RESTResponses |-> Outcome(RESTData[k])]

-----------------------------------------------------------------------------
(* The Send Controller *)

Message(id, role, content, timestamp) ==
  [id |-> id, role |-> role, content |-> content, timestamp |-> timestamp]

ViewOf(m, i, l, p) == [messages |-> m, input |-> i, isLoading |-> l, provider |-> p]

Event(name, outcome, arg, alert) ==
  [name |-> name, outcome |-> outcome, arg |-> arg, alert |-> alert]

RemoveAt(seq, i) == SubSeq(seq, 1, i - 1) \o SubSeq(seq, i + 1, Len(seq))

\* Faulty guards: no look at the pending flag; `&&` for `||`; no trim.
ReturnsEarly_NoPendingCheck(in, loading) == Trim(in) = <<>>
ReturnsEarly_AndForOr(in, loading) == Trim(in) = <<>> /\ loading
ReturnsEarly_NoTrim(in, loading) == in = <<>> \/ loading

\* if (!input.trim() || isLoading) return
ReturnsEarly(in, loading) == Trim(in) = <<>> \/ loading

\* Faulty credential check: looks at the base address.
NeedsApiKey_ChecksBaseUrl(currentConfig) == currentConfig.baseUrl = ""

\* if (!currentConfig.apiKey) { alert(...); return }
NeedsApiKey(currentConfig) == currentConfig.apiKey = ""

\* The first fetch of a send, and where the send then waits.
FirstCall(v, allMessages, currentConfig, modelName) ==
  IF v = "graphql"
    THEN GraphQLCall(Variables(modelName, allMessages), currentConfig.baseUrl, currentConfig.apiKey)
    ELSE RESTCall(allMessages, currentConfig, modelName)

\* The suspended sendMessage call: its local constants and the fetches it made.
Send(v, allMessages, currentConfig, modelName) ==
  [pc |-> IF v = "graphql" THEN "graphql" ELSE "rest",
   allMessages |-> allMessages,
   currentConfig |-> currentConfig,
   modelName |-> modelName,
   calls |-> <<FirstCall(v, allMessages, currentConfig, modelName)>>,
   gql |-> 0,
   graphqlError |-> <<>>]

Init ==
  /\ variant \in Variants
  /\ \E env \in Envs : config = ConfigOf(variant, env)
  /\ messages = <<>>
  /\ input = <<>>
  /\ isLoading = FALSE
  /\ provider = "openai"
  /\ view = ViewOf(<<>>, <<>>, FALSE, "openai")
  /\ inflight = <<>>
  /\ now = 0
  /\ event = Event("mount", "", 0, NoAlert)

\* sendMessage up to its first await (button click, or Enter in the textarea).
sendMessage ==
  IF ReturnsEarly(view.input, view.isLoading)
    THEN /\ event' = Event("sendMessage", "ignored", 0, NoAlert)
         /\ UNCHANGED <<variant, config, messages, input, isLoading, provider, view, inflight, now>>
  ELSE IF NeedsApiKey(config[view.provider])
    THEN /\ event' = Event("sendMessage", "alert", 0, ConfigPrompt(view.provider))
         /\ UNCHANGED <<variant, config, messages, input, isLoading, provider, view, inflight, now>>
  ELSE \E t \in now..MaxTime :
         LET userMessage == Message(ToString(t), "user", Trim(view.input), t)
             allMessages == Append(view.messages, userMessage)
             currentConfig == config[view.provider]
             modelName == ModelName(view.provider)
         IN /\ Len(messages) + 2 <= MaxMsgs
            /\ now' = t
            /\ messages' = Append(messages, userMessage)
            /\ input' = <<>>
            /\ isLoading' = TRUE
            /\ inflight' = Append(inflight, Send(variant, allMessages, currentConfig, modelName))
            /\ view' = ViewOf(messages', input', isLoading', provider)
            /\ event' = Event("sendMessage", "started", 0, NoAlert)
            /\ UNCHANGED <<variant, config, provider>>

\* Faulty ending: setMessages([...messages, assistantMessage]) with the
\* `messages` of the render the handler was created in, which lacks the user
\* Message of this send.
Finish_FromClosure(i, outcome, t, ev) ==
  LET captured == SubSeq(inflight[i].allMessages, 1, Len(inflight[i].allMessages) - 1)
  IN /\ now' = t
     /\ messages' = Append(captured, Message(ToString(t + 1), "assistant", outcome.content, t))
     /\ isLoading' = FALSE
     /\ inflight' = RemoveAt(inflight, i)
     /\ view' = ViewOf(messages', input, isLoading', provider)
     /\ event' = ev
     /\ UNCHANGED <<variant, config, input, provider>>

\* Faulty ending: a failed call is tried once more on the simple-form endpoint
\* before the error is shown.
Finish_RetriesOnError(i, outcome, t, ev) ==
  LET s == inflight[i]
  IN IF outcome.caught /\ Len(s.calls) < 3
       THEN /\ inflight' = [inflight EXCEPT ![i] =
                              [s EXCEPT !.pc = "rest",
                                        !.calls = Append(s.calls, RESTCall(s.allMessages, s.currentConfig, s.modelName))]]
            /\ event' = ev
            /\ UNCHANGED <<variant, config, messages, input, isLoading, provider, view, now>>
       ELSE /\ now' = t
            /\ messages' = Append(messages, Message(ToString(t + 1), "assistant", outcome.content, t))
            /\ isLoading' = FALSE
            /\ inflight' = RemoveAt(inflight, i)
            /\ view' = ViewOf(messages', input, isLoading', provider)
            /\ event' = ev
            /\ UNCHANGED <<variant, config, input, provider>>

\* Faulty ending: the catch block appends nothing, the finally block still
\* clears the pending flag.
Finish_SilentOnError(i, outcome, t, ev) ==
  /\ now' = t
  /\ messages' = IF outcome.caught THEN messages
                 ELSE Append(messages, Message(ToString(t + 1), "assistant", outcome.content, t))
  /\ isLoading' = FALSE
  /\ inflight' = RemoveAt(inflight, i)
  /\ view' = ViewOf(messages', input, isLoading', provider)
  /\ event' = ev
  /\ UNCHANGED <<variant, config, input, provider>>

\* Faulty ending: no catch and no finally, an error leaves the send pending
\* for ever and appends nothing.
Finish_NoCatchNoFinally(i, outcome, t, ev) ==
  /\ now' = t
  /\ messages' = IF outcome.caught THEN messages
                 ELSE Append(messages, Message(ToString(t + 1), "assistant", outcome.content, t))
  /\ isLoading' = IF outcome.caught THEN isLoading ELSE FALSE
  /\ inflight' = RemoveAt(inflight, i)
  /\ view' = ViewOf(messages', input, isLoading', provider)
  /\ event' = ev
  /\ UNCHANGED <<variant, config, input, provider>>

\* The rest of sendMessage once `data` is known: the assistant Message (reply or
\* error), then the finally block.
Finish(i, outcome, t, ev) ==
  /\ now' = t
  /\ messages' = Append(messages, Message(ToString(t + 1), "assistant", outcome.content, t))
  /\ isLoading' = FALSE
  /\ inflight' = RemoveAt(inflight, i)
  /\ view' = ViewOf(messages', input, isLoading', provider)
  /\ event' = ev
  /\ UNCHANGED <<variant, config, input, provider>>

\* The inner catch: log graphqlError, issue the REST request, wait for it.
Fallback(i, k, graphqlError) ==
  LET s == inflight[i]
  IN /\ inflight' = [inflight EXCEPT ![i] =
                       [s EXCEPT !.pc = "rest",
                                 !.calls = Append(s.calls, RESTCall(s.allMessages, s.currentConfig, s.modelName)),
                                 !.gql = k,
                                 !.graphqlError = graphqlError.msg]]
     /\ event' = Event("graphql", "fallback", k, NoAlert)
     /\ UNCHANGED <<variant, config, messages, input, isLoading, provider, view, now>>

\* The structured response k arrives for the send i.
GraphQLResolve ==
  \E i \in DOMAIN inflight, k \in DOMAIN GraphQLResponses :
    /\ inflight[i].pc = "graphql"
    /\ IF GraphQLData[k].threw
         THEN Fallback(i, k, GraphQLData[k])
         ELSE \E t \in now..MaxTime :
                Finish(i, GraphQLOutcome[k], t, Event("graphql", "reply", k, NoAlert))

\* The simple-form response k arrives for the send i.
RESTResolve ==
  \E i \in DOMAIN inflight, k \in DOMAIN RESTResponses, t \in now..MaxTime :
    /\ inflight[i].pc = "rest"
    /\ Finish(i, RESTOutcome[k], t, Event("rest", "reply", k, NoAlert))

\* onChange of the textarea: setInput(e.target.value).
handleInputChange ==
  \E value \in Inputs :
    /\ input' = value
    /\ view' = ViewOf(messages, input', isLoading, provider)
    /\ event' = Event("handleInputChange", "", 0, NoAlert)
    /\ UNCHANGED <<variant, config, messages, isLoading, provider, inflight, now>>

\* Faulty onChange of the provider select: a switch starts a new conversation.
setProvider_NewConversation ==
  \E p \in Providers(variant) :
    /\ provider' = p
    /\ messages' = IF p = provider THEN messages ELSE <<>>
    /\ view' = ViewOf(messages', input, isLoading, provider')
    /\ event' = Event("setProvider", "", 0, NoAlert)
    /\ UNCHANGED <<variant, config, input, isLoading, inflight, now>>

\* onChange of the provider select: setProvider(e.target.value).
setProvider ==
  \E p \in Providers(variant) :
    /\ provider' = p
    /\ view' = ViewOf(messages, input, isLoading, provider')
    /\ event' = Event("setProvider", "", 0, NoAlert)
    /\ UNCHANGED <<variant, config, messages, input, isLoading, inflight, now>>

Next ==
  \/ sendMessage
  \/ GraphQLResolve
  \/ RESTResolve
  \/ handleInputChange
  \/ setProvider

Spec == Init /\ [][Next]_vars

\* Every network call eventually resolves or rejects.
FairSpec == Spec /\ WF_vars(GraphQLResolve) /\ WF_vars(RESTResolve)

-----------------------------------------------------------------------------
(* Properties *)

LastMessage == messages[Len(messages)]

\* messages' is messages with exactly one Message of the given role appended.
AppendsOne(role) ==
  /\ Len(messages') = Len(messages) + 1
  /\ SubSeq(messages', 1, Len(messages)) = messages
  /\ messages'[Len(messages')].role = role

\* C1: a submit with non-empty trimmed input and a configured credential, made
\* while nothing is pending, appends exactly one user Message (the trimmed
\* input) and sets pending; while pending nothing else is appended; pending
\* ends with exactly one assistant Message appended; and pending always ends,
\* every network call being answered.
C1_SubmitGetsOneReply ==
  /\ [][(event'.name = "sendMessage" /\ Trim(input) # <<>>
           /\ config[provider].apiKey # "" /\ ~isLoading)
        => (AppendsOne("user") /\ messages'[Len(messages')].content = Trim(input) /\ isLoading')]_vars
  /\ [][isLoading => IF isLoading' THEN messages' = messages ELSE AppendsOne("assistant")]_vars
  /\ (isLoading ~> ~isLoading)

\* A send went through both calls and ended with a synthesized error message.
C1_Witness ==
  /\ ~isLoading
  /\ Len(messages) = 2
  /\ messages[1].role = "user" /\ messages[1].content = <<"a", " ", "b">>
  /\ messages[2].role = "assistant"
  /\ event.name = "rest" /\ variant = "graphql"
  /\ Includes(messages[2].content, ErrorPrefix)

\* C2: pending is true exactly when one send is in flight, and never more than
\* one send is in flight.
C2_PendingIffOneInFlight ==
  /\ isLoading <=> Len(inflight) = 1
  /\ Len(inflight) <= 1

\* A submit arrived while the send was waiting for the fallback's response.
C2_Witness ==
  /\ isLoading /\ Len(inflight) = 1 /\ inflight[1].pc = "rest"
  /\ event.name = "sendMessage"
  /\ Len(messages) = 3

\* C3: a submit while pending changes neither messages, input nor pending,
\* shows no configuration prompt and starts no network call.
C3_SubmitWhilePendingIsNoOp ==
  [][(event'.name = "sendMessage" /\ isLoading)
     => (UNCHANGED <<messages, input, isLoading, inflight, view>> /\ event'.alert = NoAlert)]_vars

\* A submit with non-empty input, made while pending, the active provider
\* having no credential.
C3_Witness ==
  /\ isLoading
  /\ event.name = "sendMessage"
  /\ Trim(input) # <<>>
  /\ config[provider].apiKey = ""

\* C4: a submit with empty or white-space-only input changes neither messages
\* nor pending, starts no network call, and shows no configuration prompt.
C4_BlankSubmitIsNoOp ==
  [][(event'.name = "sendMessage" /\ Trim(input) = <<>>)
     => (UNCHANGED <<messages, input, isLoading, inflight, view>> /\ event'.alert = NoAlert)]_vars

\* A submit of white space alone, nothing pending, without a credential.
C4_Witness ==
  /\ ~isLoading
  /\ event.name = "sendMessage"
  /\ input # <<>> /\ Trim(input) = <<>>
  /\ config[provider].apiKey = ""

\* C5: with an empty credential for the active provider, a submit with
\* non-empty input while not pending shows the configuration prompt and
\* changes neither messages, pending nor the input, and starts no network call.
C5_MissingCredentialPrompts ==
  [][(event'.name = "sendMessage" /\ config[provider].apiKey = ""
        /\ Trim(input) # <<>> /\ ~isLoading)
     => (event'.alert = ConfigPrompt(provider)
           /\ UNCHANGED <<messages, input, isLoading, inflight, view>>)]_vars

\* The prompt for OpenAI, shown after a conversation held with DeepSeek.
C5_Witness ==
  /\ event.alert = <<"PLEASE_CONFIGURE ", "OPENAI", " API Key">>
  /\ Len(messages) = 2
  /\ Trim(input) # <<>>
  /\ ~isLoading

-----------------------------------------------------------------------------
(* Properties of the transport.  The send a response belongs to is            *)
(* inflight[1] before the step; event' names the response that arrived.       *)

\* x.path[1].path[2]... of a decoded body ("0" indexes an array), or undefined.
RECURSIVE Dig(_, _)
Dig(x, path) ==
  IF path = <<>> THEN x
  ELSE IF x.t = "object" /\ Head(path) \in DOMAIN x.v THEN Dig(x.v[Head(path)], Tail(path))
  ELSE IF x.t = "array" /\ Head(path) = "0" /\ Len(x.v) > 0 THEN Dig(x.v[1], Tail(path))
  ELSE Undef

\* The endpoints called by a send, in order.
Kinds(calls) == [j \in 1..Len(calls) |-> calls[j].kind]

\* The response has a success status and a JSON body.
Success(resp) == ~resp.reject /\ Ok(resp) /\ resp.json

\* The decoded response carries an errors array with at least one entry.
HasErrors(resp) ==
  /\ Success(resp)
  /\ Dig(resp.body, <<"errors">>).t = "array"
  /\ Len(Dig(resp.body, <<"errors">>).v) > 0

\* The call failed: no response, or a non-success status.
CallFailed(resp) == resp.reject \/ ~Ok(resp)

\* The cause text of a failed call.
CauseText(resp) == IF resp.reject THEN FailedToFetch ELSE HttpErrorText(resp.status)

GraphQLContentPath == <<"data", "chatCompletion", "choices", "0", "message", "content">>
RESTContentPath == <<"choices", "0", "message", "content">>

\* The response carries the non-empty content c at the path.
HasContent(resp, path, c) ==
  Success(resp) /\ c # <<>> /\ Dig(resp.body, path) = JStr(c)

\* The response carries no content at the path: nothing there, or ''.
LacksContent(resp, path) ==
  Success(resp) /\ ~(Dig(resp.body, path).t = "string" /\ Dig(resp.body, path).v # <<>>)

GraphQLArrives(k) == event'.name = "graphql" /\ event'.arg = k /\ Len(inflight) = 1
RESTArrives(k) == event'.name = "rest" /\ event'.arg = k /\ Len(inflight) = 1

\* C6: when the structured response carries a non-empty errors array, the send
\* issues the simple-form call next and appends nothing yet; every send whose
\* structured response carried errors has made exactly the structured call
\* and then the simple-form call, up to its end.
C6_ErrorsArrayFallsBackOnce ==
  /\ [][\A k \in DOMAIN GraphQLResponses :
          (GraphQLArrives(k) /\ HasErrors(GraphQLResponses[k]))
          => /\ Len(inflight') = 1
             /\ Kinds(inflight[1].calls) = <<"graphql">>
             /\ Kinds(inflight'[1].calls) = <<"graphql", "rest">>
             /\ messages' = messages /\ isLoading']_vars
  /\ [][\A k \in DOMAIN RESTResponses :
          (RESTArrives(k) /\ inflight[1].gql # 0 /\ HasErrors(GraphQLResponses[inflight[1].gql]))
          => (Kinds(inflight[1].calls) = <<"graphql", "rest">> /\ inflight' = <<>>)]_vars

\* The fallback of a send whose structured response carried two errors waits.
C6_Witness ==
  /\ Len(inflight) = 1
  /\ inflight[1].pc = "rest"
  /\ inflight[1].graphqlError = <<"GraphQL error: ", "boom", ", ", "bad model">>
  /\ Kinds(inflight[1].calls) = <<"graphql", "rest">>

\* C7 as stated: when both calls fail, the assistant Message contains the
\* simple-form cause text and does not contain the structured cause text.
C7_OnlySimpleFormCause_AsStated ==
  [][\A k \in DOMAIN RESTResponses :
       (RESTArrives(k) /\ inflight[1].gql # 0 /\ CallFailed(RESTResponses[k]))
       => /\ AppendsOne("assistant")
          /\ Includes(messages'[Len(messages')].content, CauseText(RESTResponses[k]))
          /\ ~Includes(messages'[Len(messages')].content, inflight[1].graphqlError)]_vars

\* C7, amended: when both calls fail, the assistant Message is the error
\* prefix followed by the simple-form cause text and nothing else; the
\* structured cause text is in it only where it is part of the simple-form
\* cause text (both calls failing the same way).
C7_OnlySimpleFormCause ==
  [][\A k \in DOMAIN RESTResponses :
       (RESTArrives(k) /\ inflight[1].gql # 0 /\ CallFailed(RESTResponses[k]))
       => /\ AppendsOne("assistant")
          /\ messages'[Len(messages')].content = ErrorPrefix \o CauseText(RESTResponses[k])
          /\ (~Includes(CauseText(RESTResponses[k]), inflight[1].graphqlError)
                => ~Includes(messages'[Len(messages')].content, inflight[1].graphqlError))]_vars

\* Both calls failed, with different causes: GraphQL errors, then HTTP 429.
C7_Witness ==
  /\ event.name = "rest" /\ variant = "graphql"
  /\ CallFailed(RESTResponses[event.arg])
  /\ ~isLoading
  /\ LastMessage.content = ErrorPrefix \o <<"HTTP error! status: ", "429">>

\* C8: when the structured response succeeds without errors and carries the
\* non-empty content c, the assistant Message appended has content c and the
\* send ends having made the structured call only.
C8_GraphQLReplyIsShown ==
  [][\A k \in DOMAIN GraphQLResponses :
       (GraphQLArrives(k) /\ ~HasErrors(GraphQLResponses[k])
          /\ HasContent(GraphQLResponses[k], GraphQLContentPath, HiThere))
       => /\ AppendsOne("assistant")
          /\ messages'[Len(messages')].content = HiThere
          /\ Kinds(inflight[1].calls) = <<"graphql">>
          /\ inflight' = <<>>]_vars

\* The reply of a structured response with an empty errors array is shown.
C8_Witness ==
  /\ event.name = "graphql" /\ event.outcome = "reply"
  /\ HasContent(GraphQLResponses[event.arg], GraphQLContentPath, HiThere)
  /\ Dig(GraphQLResponses[event.arg].body, <<"errors">>).t = "array"
  /\ LastMessage.content = HiThere
  /\ inflight = <<>>

C10_MalformedResponseGetsPlaceholder ==
  /\ [][\A k \in DOMAIN GraphQLResponses :
          (GraphQLArrives(k) /\ ~HasErrors(GraphQLResponses[k])
             /\ Dig(GraphQLResponses[k].body, <<"data", "chatCompletion">>).t = "object"
             /\ LacksContent(GraphQLResponses[k], GraphQLContentPath))
          => (AppendsOne("assistant") /\ messages'[Len(messages')].content = NoReplyText)]_vars
  /\ [][\A k \in DOMAIN RESTResponses :
          (RESTArrives(k) /\ LacksContent(RESTResponses[k], RESTContentPath))
          => (AppendsOne("assistant") /\ messages'[Len(messages')].content = NoReplyText)]_vars

-----------------------------------------------------------------------------
(* Properties of the conversation *)

\* C11: the conversation is append-only: across every step the messages
\* before the step are a prefix of the messages after it, so that no Message is
\* removed, moved, or changed in its id, role, content or timestamp.
C11_ConversationIsAppendOnly ==
  [][/\ Len(messages') >= Len(messages)
     /\ \A j \in 1..Len(messages) : messages'[j] = messages[j]]_vars

\* A second send has got its reply on top of the first exchange.
C11_Witness ==
  /\ Len(messages) = 4
  /\ ~isLoading
  /\ event.name \in {"graphql", "rest"}

\* The ids of the conversation, in order.
Ids == [j \in 1..Len(messages) |-> messages[j].id]

\* C12 as stated: no two Messages of the conversation have the same id.
C12_IdsAreUnique ==
  \A j1, j2 \in 1..Len(messages) : j1 # j2 => Ids[j1] # Ids[j2]

-----------------------------------------------------------------------------
(* Properties of the fallback *)

\* The step issues a simple-form call for the send inflight[1].
RESTIssued ==
  /\ Len(inflight) = 1 /\ Len(inflight') = 1
  /\ Len(inflight'[1].calls) = Len(inflight[1].calls) + 1
  /\ inflight'[1].calls[Len(inflight'[1].calls)].kind = "rest"

\* A send is started by the step, or a call is added to a send.
CallIssued ==
  \/ Len(inflight') > Len(inflight)
  \/ \E i \in DOMAIN inflight :
       i \in DOMAIN inflight' /\ Len(inflight'[i].calls) > Len(inflight[i].calls)

\* The response is decoded, has no errors entry, and its data is there but has
\* no chatCompletion to read choices from.
DataWithoutChatCompletion(resp) ==
  /\ Success(resp) /\ ~HasErrors(resp)
  /\ ~IsNullish(Dig(resp.body, <<"data">>))
  /\ IsNullish(Dig(resp.body, <<"data", "chatCompletion">>))

\* The body of a response with a success status is not JSON.
NotDecodable(resp) == ~resp.reject /\ Ok(resp) /\ ~resp.json

AttemptFailed(resp) ==
  \/ CallFailed(resp)
  \/ NotDecodable(resp)
  \/ HasErrors(resp)
  \/ DataWithoutChatCompletion(resp)

HistoryOf(call) ==
  IF call.kind = "graphql" THEN call.body.variables.input.messages ELSE call.body.messages

\* C14: the history a send hands to the transport is the conversation as it
\* stands right after the send's user Message was appended: every Message of
\* the state, in order, then the new user Message, each as {role, content};
\* and as long as the send is pending every call of it carries the whole
\* conversation.
C14_HistoryIsFullConversation ==
  /\ [][Len(inflight') > Len(inflight)
        => LET history == HistoryOf(inflight'[Len(inflight')].calls[1])
           IN /\ history = [j \in 1..Len(messages') |->
                              [role |-> messages'[j].role, content |-> messages'[j].content]]
              /\ Len(history) = Len(messages) + 1
              /\ history[Len(history)] = [role |-> "user", content |-> Trim(input)]]_vars
  /\ [](\A i \in DOMAIN inflight : \A j \in DOMAIN inflight[i].calls :
          HistoryOf(inflight[i].calls[j]) =
            [m \in 1..Len(messages) |-> [role |-> messages[m].role, content |-> messages[m].content]])

\* The second send of a conversation carries the first exchange and its own
\* user Message.
C14_Witness ==
  /\ event.name = "sendMessage"
  /\ Len(messages) = 3
  /\ Len(inflight) = 1
  /\ Len(HistoryOf(inflight[1].calls[1])) = 3
  /\ HistoryOf(inflight[1].calls[1])[2].role = "assistant"

\* C15: no retry beyond the single fallback.  A pending send has issued the
\* structured call exactly once and the simple-form call at most once, after
\* it (the REST-only build: the simple-form call once); the only call added
\* to a send is the fallback of a send that has made the structured call
\* alone; and the answer to the simple-form call, a failure included, ends the
\* send without any further call.
C15_NoRetryBeyondFallback ==
  /\ [](\A i \in DOMAIN inflight :
          Kinds(inflight[i].calls) \in
            (IF variant = "graphql" THEN {<<"graphql">>, <<"graphql", "rest">>} ELSE {<<"rest">>}))
  /\ [][(CallIssued /\ Len(inflight') = Len(inflight))
        => (RESTIssued /\ Kinds(inflight[1].calls) = <<"graphql">>)]_vars
  /\ [][\A k \in DOMAIN RESTResponses :
          RESTArrives(k) => (~CallIssued /\ inflight' = <<>> /\ ~isLoading')]_vars

\* Both calls of a send failed and the send is over.
C15_Witness ==
  /\ event.name = "rest" /\ variant = "graphql"
  /\ CallFailed(RESTResponses[event.arg])
  /\ inflight = <<>>
  /\ ~isLoading
  /\ Includes(LastMessage.content, ErrorPrefix)

\* C16: the fallback request of a send carries the model, the message
\* history, the bearer credential, the base address and the sampling
\* parameters (temperature 0.7, at most 1000 tokens) of the send's structured
\* request.
C16_FallbackCarriesSameRequest ==
  \A i \in DOMAIN inflight :
    Len(inflight[i].calls) = 2 =>
      LET g == inflight[i].calls[1]
          r == inflight[i].calls[2]
          in == g.body.variables.input
      IN /\ g.kind = "graphql" /\ r.kind = "rest"
         /\ r.body.model = in.model
         /\ r.body.messages = in.messages
         /\ r.authorization = g.authorization
         /\ r.url[1] = g.url[1]
         /\ r.body.temperature = in.temperature /\ in.temperature = "0.7"
         /\ r.body.max_tokens = in.maxTokens /\ in.maxTokens = 1000

\* The second send of a conversation, behind a proxy, has fallen back.
C16_Witness ==
  /\ Len(inflight) = 1
  /\ Len(inflight[1].calls) = 2
  /\ Len(messages) = 3
  /\ inflight[1].calls[2].url = <<"https://proxy.example/v1", "/chat/completions">>
  /\ inflight[1].calls[2].authorization = <<"Bearer ", "sk-openai">>

\* C17: the roles of the conversation alternate, starting with user; while
\* nothing is pending there are as many user as assistant Messages (the
\* conversation is empty or ends with an assistant Message); while a send is
\* pending the conversation ends with a user Message that has no reply yet.
C17_RolesAlternate ==
  LET count(role) == Cardinality({j \in 1..Len(messages) : messages[j].role = role})
  IN /\ \A j \in 1..Len(messages) :
          messages[j].role = IF j % 2 = 1 THEN "user" ELSE "assistant"
     /\ ~isLoading => /\ count("user") = count("assistant")
                      /\ (messages = <<>> \/ LastMessage.role = "assistant")
     /\ isLoading => /\ messages # <<>>
                     /\ LastMessage.role = "user"
                     /\ count("user") = count("assistant") + 1

\* A send is pending after an exchange that ended with an error message.
C17_Witness ==
  /\ isLoading
  /\ Len(messages) = 3
  /\ Includes(messages[2].content, ErrorPrefix)
  /\ messages[3].role = "user"

-----------------------------------------------------------------------------
(* Properties of the provider switch *)

\* The model a call asks for.
ModelOf(call) ==
  IF call.kind = "graphql" THEN call.body.variables.input.model ELSE call.body.model

\* The model, the credential and the base address of the call are those of
\* the provider p.
BelongsTo(call, p) ==
  /\ ModelOf(call) = (IF p = "openai" THEN "gpt-3.5-turbo" ELSE "deepseek-chat")
  /\ call.authorization = <<"Bearer ", config[p].apiKey>>
  /\ call.url[1] = config[p].baseUrl

\* C18: a provider switch does not affect a pending send.  The request of a
\* send carries the model, the credential and the base address of the
\* provider selected when it was submitted; a switch of the provider changes
\* neither the conversation, nor the pending flag, nor the send in flight; a
\* fallback call belongs to the provider of the first call; and at every
\* moment all the calls of a pending send belong to one and the same provider.
C18_SwitchLeavesPendingSendAlone ==
  /\ [][Len(inflight') > Len(inflight)
        => BelongsTo(inflight'[Len(inflight')].calls[1], provider)]_vars
  /\ [][provider' # provider => UNCHANGED <<messages, isLoading, inflight>>]_vars
  /\ [][event'.name = "setProvider" => UNCHANGED <<messages, isLoading, inflight>>]_vars
  /\ [][RESTIssued
        => \E p \in Providers(variant) :
             /\ BelongsTo(inflight[1].calls[1], p)
             /\ BelongsTo(inflight'[1].calls[2], p)]_vars
  /\ [](\A i \in DOMAIN inflight :
          \E p \in Providers(variant) :
            \A j \in DOMAIN inflight[i].calls : BelongsTo(inflight[i].calls[j], p))

\* The provider was switched to deepseek while a send to openai is pending.
C18_Witness ==
  /\ variant = "rest"
  /\ event.name = "setProvider"
  /\ provider = "deepseek"
  /\ isLoading
  /\ Len(inflight) = 1
  /\ BelongsTo(inflight[1].calls[1], "openai")
  /\ ~BelongsTo(inflight[1].calls[1], "deepseek")

====
